---- MODULE Spec2Model ----
(***************************************************************************)
(* MAVLink framing layer (include/protocol.h): message finalization, the   *)
(* send-buffer serializer and the per-channel byte parser, as one state    *)
(* machine.  A sending endpoint finalizes and packs messages; a transport  *)
(* carries the packed bytes (possibly altered, lost, or with stray bytes)  *)
(* to a channel; the receive loop hands them to mavlink_parse_char one at  *)
(* a time.                                                                 *)
(*                                                                         *)
(* checksum.h and mavlink_types.h are not part of the sources at hand: the *)
(* checksum recurrence, the message/status layouts, integer widths of the  *)
(* status fields and the MAVLINK_* macros are modelled from the            *)
(* specification text.  The union in mavlink_update_checksum is read with  *)
(* the byte order of the little-endian targets the header names (ARM7,     *)
(* x86 Linux/Windows/Mac).                                                 *)
(***************************************************************************)
EXTENDS Integers, Sequences, FiniteSets, TLC

\* ------------------------------------------------------------- bounds
MaxLen == 2        \* longest payload a sender packs
MaxBytes == 20     \* bytes the sending endpoint produces in one run
MaxFaults == 1     \* transport faults (altered byte, stray byte, lost frame)
MaxCalls == 258    \* finalize calls followed in the sequence-counter run
MaxPuts == 2       \* put_*_by_index calls made on one buffer
MaxThreadCalls == 2  \* finalize calls each concurrent thread makes

\* ------------------------------------------------ integer widths, macros
UINT8_MOD == 256
UINT16_MOD == 65536

MAVLINK_STX == 85
MAVLINK_CORE_HEADER_LEN == 5
MAVLINK_NUM_CHECKSUM_BYTES == 2
MAVLINK_STX_LEN == 1
MAVLINK_NUM_NON_PAYLOAD_BYTES ==
    MAVLINK_CORE_HEADER_LEN + MAVLINK_STX_LEN + MAVLINK_NUM_CHECKSUM_BYTES
\* the header and trailer bytes without the start sign
MAVLINK_NUM_NON_STX_PAYLOAD_BYTES ==
    MAVLINK_NUM_NON_PAYLOAD_BYTES - MAVLINK_STX_LEN
X25_INIT_CRC == 65535

MAVLINK_PARSE_STATE_UNINIT == 0
MAVLINK_PARSE_STATE_IDLE == 1
MAVLINK_PARSE_STATE_GOT_STX == 2
MAVLINK_PARSE_STATE_GOT_LENGTH == 3
MAVLINK_PARSE_STATE_GOT_SEQ == 4
MAVLINK_PARSE_STATE_GOT_SYSID == 5
MAVLINK_PARSE_STATE_GOT_COMPID == 6
MAVLINK_PARSE_STATE_GOT_MSGID == 7
MAVLINK_PARSE_STATE_GOT_PAYLOAD == 8
MAVLINK_PARSE_STATE_GOT_CRC1 == 9

\* ------------------------------------------------------- input domains
Channels == {0}
CommChannels == {0, 1}                  \* MAVLINK_COMM_0, MAVLINK_COMM_1
Origins == {<<1, 200>>, <<85, 7>>}      \* (system id, component id)
MsgIds == {85}
AlteredTo == {0, 85}                    \* values a transport fault writes
StrayBytes == {0, 85}
StartSeqs == {0, 255}

\* one payload of every length 0..MaxLen: 85, 1, 85, 1, ...
Payloads == {[i \in 1..n |-> IF i % 2 = 1 THEN 85 ELSE 1] : n \in 0..MaxLen}

\* ------------------------------------------------------------ checksum
RECURSIVE XorN(_, _, _)
\* a ^ b over the low n bits, bit by bit
XorN(a, b, n) ==
    IF n = 0 THEN 0
    ELSE (((a % 2) + (b % 2)) % 2) + 2 * XorN(a \div 2, b \div 2, n - 1)

\* the exclusive or of two 4-bit values, tabulated
XorNib == [a \in 0..15 |-> [b \in 0..15 |-> XorN(a, b, 4)]]

RECURSIVE Xor(_, _)
\* a ^ b, four bits at a time
Xor(a, b) ==
    IF a = 0 THEN b
    ELSE IF b = 0 THEN a
    ELSE XorNib[a % 16][b % 16] + 16 * Xor(a \div 16, b \div 16)

Xor8(a, b) == Xor(a, b)
Xor16(a, b) == Xor(a, b)

crcInit == X25_INIT_CRC

\* tmp ^= (tmp << 4), in 8 bits
crc_tmp_fold(tmp) == Xor8(tmp, (tmp * 16) % UINT8_MOD)

\* (crcAccum >> 8) ^ (tmp << 8) ^ (tmp << 3) ^ (tmp >> 4)
crc_mix(crcAccum, tmp) ==
    Xor16(Xor16(crcAccum \div 256, tmp * 256),
          Xor16(tmp * 8, tmp \div 16))

crcAccumulate(data, crcAccum) ==
    crc_mix(crcAccum, crc_tmp_fold(Xor8(data, crcAccum % UINT8_MOD)))

RECURSIVE crc_calculate(_, _)
\* the checksum of the first `length` bytes of pBuffer, folded front to back
crc_calculate(pBuffer, length) ==
    IF length = 0 THEN crcInit
    ELSE crcAccumulate(pBuffer[length], crc_calculate(pBuffer, length - 1))

\* --------------------------------------------------- message as memory
\* mavlink_message_t read as bytes: len, seq, sysid, compid, msgid, payload...
MsgBytes(msg) ==
    <<msg.len, msg.seq, msg.sysid, msg.compid, msg.msgid>> \o msg.payload

NoMessage ==
    [len |-> 0, seq |-> 0, sysid |-> 0, compid |-> 0, msgid |-> 0,
     payload |-> <<>>, ck_a |-> 0, ck_b |-> 0]

\* ------------------------------------------------------------- sender
\* finalize_message: the message it leaves in *msg
finalize_message_msg(msg, system_id, component_id, length, s) ==
    LET m1 == [msg EXCEPT !.len = length % UINT8_MOD,
                          !.sysid = system_id,
                          !.compid = component_id,
                          !.seq = s]
        checksum == crc_calculate(MsgBytes(m1), length + MAVLINK_CORE_HEADER_LEN)
    IN  [m1 EXCEPT !.ck_a = checksum % UINT8_MOD,
                   !.ck_b = checksum \div 256]

\* a counter that stops at 255 instead of wrapping
finalize_message_seq_saturating(s) == IF s = UINT8_MOD - 1 THEN s ELSE s + 1

\* a counter that `seq++` leaves as it was
finalize_message_seq_unchanged(s) == s

\* the static counter after `seq++`
finalize_message_seq(s) == (s + 1) % UINT8_MOD

\* finalize_message: its return value
finalize_message_ret(length) ==
    (length + MAVLINK_NUM_NON_STX_PAYLOAD_BYTES) % UINT16_MOD

message_get_send_buffer_length(msg) ==
    (msg.len + MAVLINK_NUM_NON_PAYLOAD_BYTES) % UINT16_MOD

\* the two checksum bytes written in the opposite order
message_to_send_buffer_bytes_swapped(msg) ==
    <<MAVLINK_STX>>
      \o SubSeq(MsgBytes(msg), 1, msg.len + MAVLINK_CORE_HEADER_LEN)
      \o <<msg.ck_b, msg.ck_a>>

\* message_to_send_buffer: the bytes it writes at buffer[0], buffer[1], ...
message_to_send_buffer_bytes(msg) ==
    <<MAVLINK_STX>>
      \o SubSeq(MsgBytes(msg), 1, msg.len + MAVLINK_CORE_HEADER_LEN)
      \o <<msg.ck_a, msg.ck_b>>

\* a return value that leaves out the start sign
message_to_send_buffer_ret_nostx(msg) ==
    (msg.len + MAVLINK_NUM_NON_STX_PAYLOAD_BYTES) % UINT16_MOD

message_to_send_buffer_ret(msg) ==
    (msg.len + MAVLINK_NUM_NON_PAYLOAD_BYTES) % UINT16_MOD

\* mavlink_send_uart: the bytes handed to comm_send_ch, in call order
mavlink_send_uart(msg) ==
    <<MAVLINK_STX, msg.len, msg.seq, msg.sysid, msg.compid, msg.msgid>>
      \o [i \in 1..msg.len |-> msg.payload[i]]
      \o <<msg.ck_a, msg.ck_b>>

\* ------------------------------------------------------ field packers
MAVLINK_MAX_PAYLOAD_LEN == 255
INT8_MIN == -128

\* the offsets callers pass and the values they pack
PutOffsets == {0, 100, 200}
Values_uint8 == {1, 255}
Values_int8 == {-2, 127}
Values_uint16 == {258, 65535}
Values_int16 == {-2, 258}
Values_uint32 == {16909060}
Values_int32 == {-2, 16909060}
Values_uint64 == {16909060, 2147483647}
Values_int64 == {-2, 16909060}
Values_float == {1065353216, -1082130432}     \* the bits of 1.0f and -1.0f
Values_array == {<<-1>>, <<1, 2, 3>>}

\* an int8_t parameter handed a cursor value 0..255
int8_of(v) == IF v >= 128 THEN v - UINT8_MOD ELSE v

RECURSIVE ShiftRight(_, _)
\* b >> n for n a multiple of 8; on a negative b the sign bits come in
ShiftRight(b, n) == IF n = 0 THEN b ELSE ShiftRight(b \div 256, n - 8)

\* what a put call leaves: the memory and its return value
PutResult(buffer, r) == [buffer |-> buffer, ret |-> r]

\* *(buffer + bindex) = b;
put_uint8_t_by_index(b, bindex, buffer) ==
    PutResult([buffer EXCEPT ![bindex] = b], 1)

\* bindex is an int8_t here: a cursor of 128..255 arrives as -128..-1 and the
\* store is made in front of the buffer.  That store is outside the object:
\* it lands in the bytes before the buffer (landed) or is not seen at all.
put_int8_by_index(b, bindex, buffer, landed) ==
    IF int8_of(bindex) >= 0
    THEN PutResult([buffer EXCEPT ![int8_of(bindex)] = b % UINT8_MOD], 1)
    ELSE IF landed
         THEN PutResult([buffer EXCEPT ![int8_of(bindex)] = b % UINT8_MOD], 1)
         ELSE PutResult(buffer, 1)

put_uint16_t_by_index(b, bindex, buffer) ==
    PutResult([buffer EXCEPT ![bindex] = ShiftRight(b, 8) % 256,
                             ![bindex + 1] = b % 256], 2)

\* the int16_t argument converted to the uint16_t parameter
put_int16_t_by_index(b, bindex, buffer) ==
    put_uint16_t_by_index(b % UINT16_MOD, bindex, buffer)

put_uint32_t_by_index(b, bindex, buffer) ==
    PutResult([buffer EXCEPT ![bindex] = ShiftRight(b, 24) % 256,
                             ![bindex + 1] = ShiftRight(b, 16) % 256,
                             ![bindex + 2] = ShiftRight(b, 8) % 256,
                             ![bindex + 3] = b % 256], 4)

put_int32_t_by_index(b, bindex, buffer) ==
    PutResult([buffer EXCEPT ![bindex] = ShiftRight(b, 24) % 256,
                             ![bindex + 1] = ShiftRight(b, 16) % 256,
                             ![bindex + 2] = ShiftRight(b, 8) % 256,
                             ![bindex + 3] = b % 256], 4)

put_uint64_t_by_index(b, bindex, buffer) ==
    PutResult([buffer EXCEPT ![bindex] = ShiftRight(b, 56) % 256,
                             ![bindex + 1] = ShiftRight(b, 48) % 256,
                             ![bindex + 2] = ShiftRight(b, 40) % 256,
                             ![bindex + 3] = ShiftRight(b, 32) % 256,
                             ![bindex + 4] = ShiftRight(b, 24) % 256,
                             ![bindex + 5] = ShiftRight(b, 16) % 256,
                             ![bindex + 6] = ShiftRight(b, 8) % 256,
                             ![bindex + 7] = b % 256], 8)

\* the int64_t argument converted to the uint64_t parameter keeps its bits
put_int64_t_by_index(b, bindex, buffer) ==
    put_uint64_t_by_index(b, bindex, buffer)

\* g.f = b; g.i read back: b is given by its bits
put_float_by_index(b, bindex, buffer) ==
    put_int32_t_by_index(b, bindex, buffer)

\* memcpy(buffer + bindex, b, length)
put_array_by_index(b, length, bindex, buffer) ==
    PutResult([i \in DOMAIN buffer |->
                  IF i \in bindex..(bindex + length - 1)
                  THEN b[i - bindex + 1] % UINT8_MOD
                  ELSE buffer[i]],
              length)

\* ------------------------------------------------------------- parser
NoStatus ==
    [ck_a |-> 0, ck_b |-> 0, msg_received |-> 0, buffer_overrun |-> 0,
     parse_error |-> 0, parse_state |-> MAVLINK_PARSE_STATE_UNINIT,
     packet_idx |-> 0, current_seq |-> 0,
     packet_rx_success_count |-> 0, packet_rx_drop_count |-> 0]

NoReport ==
    [current_seq |-> 0, packet_rx_success_count |-> 0, packet_rx_drop_count |-> 0]

\* union checksum_ { uint16_t s; uint8_t c[2]; }: c[0] and c[1] of s, s of c[]
checksum_c0(s) == s % UINT8_MOD
checksum_c1(s) == s \div 256
checksum_s(c0, c1) == c0 + 256 * c1

\* msg->ck_a = ck.c[0]; msg->ck_b = ck.c[1];
checksum_store(msg, s) ==
    [msg EXCEPT !.ck_a = checksum_c0(s), !.ck_b = checksum_c1(s)]

mavlink_start_checksum(msg) == checksum_store(msg, crcInit)

mavlink_update_checksum(msg, c) ==
    checksum_store(msg, crcAccumulate(c, checksum_s(msg.ck_a, msg.ck_b)))

\* an initializer that also takes IDLE for uninitialized
mavlink_parse_state_initialize_idle(initStatus) ==
    IF \/ initStatus.parse_state <= MAVLINK_PARSE_STATE_IDLE
       \/ initStatus.parse_state > MAVLINK_PARSE_STATE_GOT_CRC1
    THEN [initStatus EXCEPT !.ck_a = 0, !.ck_b = 0, !.msg_received = 0,
                            !.buffer_overrun = 0, !.parse_error = 0,
                            !.parse_state = MAVLINK_PARSE_STATE_UNINIT,
                            !.packet_idx = 0,
                            !.packet_rx_drop_count = 0,
                            !.packet_rx_success_count = 0]
    ELSE initStatus

mavlink_parse_state_initialize(initStatus) ==
    IF \/ initStatus.parse_state <= MAVLINK_PARSE_STATE_UNINIT
       \/ initStatus.parse_state > MAVLINK_PARSE_STATE_GOT_CRC1
    THEN [initStatus EXCEPT !.ck_a = 0, !.ck_b = 0, !.msg_received = 0,
                            !.buffer_overrun = 0, !.parse_error = 0,
                            !.parse_state = MAVLINK_PARSE_STATE_UNINIT,
                            !.packet_idx = 0,
                            !.packet_rx_drop_count = 0,
                            !.packet_rx_success_count = 0]
    ELSE initStatus

\* rxmsg->payload[idx] = c; cells never written hold the zeros of static storage
RECURSIVE PayloadStore(_, _, _)
PayloadStore(payload, idx, c) ==
    IF idx < Len(payload) THEN [payload EXCEPT ![idx + 1] = c]
    ELSE IF idx = Len(payload) THEN Append(payload, c)
    ELSE PayloadStore(Append(payload, 0), idx, c)

\* Each case of the switch yields the status, the message under assembly and
\* whether the message is copied to the caller (memcpy to r_message).
Step(status, rxmsg, copied) == [status |-> status, rxmsg |-> rxmsg, copied |-> copied]

\* a byte that is no delimiter counted as an error
case_IDLE_counting(status, rxmsg, c) ==
    IF c = MAVLINK_STX
    THEN Step([status EXCEPT !.parse_state = MAVLINK_PARSE_STATE_GOT_STX],
              mavlink_start_checksum(rxmsg), FALSE)
    ELSE Step([status EXCEPT !.parse_error = (status.parse_error + 1) % UINT8_MOD],
              rxmsg, FALSE)

case_IDLE(status, rxmsg, c) ==
    IF c = MAVLINK_STX
    THEN Step([status EXCEPT !.parse_state = MAVLINK_PARSE_STATE_GOT_STX],
              mavlink_start_checksum(rxmsg), FALSE)
    ELSE Step(status, rxmsg, FALSE)

\* a length byte taken without the payload cursor being reset
case_GOT_STX_keepidx(status, rxmsg, c) ==
    IF status.msg_received # 0
    THEN Step([status EXCEPT
                 !.buffer_overrun = (status.buffer_overrun + 1) % UINT8_MOD,
                 !.parse_error = (status.parse_error + 1) % UINT8_MOD,
                 !.msg_received = 0,
                 !.parse_state = MAVLINK_PARSE_STATE_IDLE],
              rxmsg, FALSE)
    ELSE Step([status EXCEPT !.parse_state = MAVLINK_PARSE_STATE_GOT_LENGTH],
              mavlink_update_checksum([rxmsg EXCEPT !.len = c], c), FALSE)

case_GOT_STX(status, rxmsg, c) ==
    IF status.msg_received # 0
    THEN Step([status EXCEPT
                 !.buffer_overrun = (status.buffer_overrun + 1) % UINT8_MOD,
                 !.parse_error = (status.parse_error + 1) % UINT8_MOD,
                 !.msg_received = 0,
                 !.parse_state = MAVLINK_PARSE_STATE_IDLE],
              rxmsg, FALSE)
    ELSE Step([status EXCEPT !.packet_idx = 0,
                             !.parse_state = MAVLINK_PARSE_STATE_GOT_LENGTH],
              mavlink_update_checksum([rxmsg EXCEPT !.len = c], c), FALSE)

\* a sequence byte left out of the running checksum
case_GOT_LENGTH_unsummed(status, rxmsg, c) ==
    Step([status EXCEPT !.parse_state = MAVLINK_PARSE_STATE_GOT_SEQ],
         [rxmsg EXCEPT !.seq = c], FALSE)

case_GOT_LENGTH(status, rxmsg, c) ==
    Step([status EXCEPT !.parse_state = MAVLINK_PARSE_STATE_GOT_SEQ],
         mavlink_update_checksum([rxmsg EXCEPT !.seq = c], c), FALSE)

case_GOT_SEQ(status, rxmsg, c) ==
    Step([status EXCEPT !.parse_state = MAVLINK_PARSE_STATE_GOT_SYSID],
         mavlink_update_checksum([rxmsg EXCEPT !.sysid = c], c), FALSE)

case_GOT_SYSID(status, rxmsg, c) ==
    Step([status EXCEPT !.parse_state = MAVLINK_PARSE_STATE_GOT_COMPID],
         mavlink_update_checksum([rxmsg EXCEPT !.compid = c], c), FALSE)

\* a message-kind byte always followed by payload accumulation
case_GOT_COMPID_accumulating(status, rxmsg, c) ==
    Step([status EXCEPT !.parse_state = MAVLINK_PARSE_STATE_GOT_MSGID],
         mavlink_update_checksum([rxmsg EXCEPT !.msgid = c], c), FALSE)

case_GOT_COMPID(status, rxmsg, c) ==
    Step([status EXCEPT !.parse_state =
                 IF rxmsg.len = 0 THEN MAVLINK_PARSE_STATE_GOT_PAYLOAD
                                  ELSE MAVLINK_PARSE_STATE_GOT_MSGID],
         mavlink_update_checksum([rxmsg EXCEPT !.msgid = c], c), FALSE)

\* status->packet_idx++; if (status->packet_idx == rxmsg->len) ...
payload_advance(status, len) ==
    IF (status.packet_idx + 1) % UINT8_MOD = len
    THEN [status EXCEPT !.packet_idx = (status.packet_idx + 1) % UINT8_MOD,
                        !.parse_state = MAVLINK_PARSE_STATE_GOT_PAYLOAD]
    ELSE [status EXCEPT !.packet_idx = (status.packet_idx + 1) % UINT8_MOD]

case_GOT_MSGID(status, rxmsg, c) ==
    Step(payload_advance(status, rxmsg.len),
         mavlink_update_checksum(
            [rxmsg EXCEPT !.payload = PayloadStore(rxmsg.payload, status.packet_idx, c)],
            c),
         FALSE)

\* a first-checksum mismatch that does not return to IDLE
case_GOT_PAYLOAD_stuck(status, rxmsg, c) ==
    IF c # rxmsg.ck_a
    THEN Step([status EXCEPT
                 !.parse_error = (status.parse_error + 1) % UINT8_MOD,
                 !.msg_received = 0],
              rxmsg, FALSE)
    ELSE Step([status EXCEPT !.parse_state = MAVLINK_PARSE_STATE_GOT_CRC1],
              rxmsg, FALSE)

case_GOT_PAYLOAD(status, rxmsg, c) ==
    IF c # rxmsg.ck_a
    THEN Step([status EXCEPT
                 !.parse_error = (status.parse_error + 1) % UINT8_MOD,
                 !.msg_received = 0,
                 !.parse_state = MAVLINK_PARSE_STATE_IDLE],
              rxmsg, FALSE)
    ELSE Step([status EXCEPT !.parse_state = MAVLINK_PARSE_STATE_GOT_CRC1],
              rxmsg, FALSE)

\* a second-checksum mismatch that does not return to IDLE
case_GOT_CRC1_trap(status, rxmsg, c) ==
    IF c # rxmsg.ck_b
    THEN Step([status EXCEPT
                 !.parse_error = (status.parse_error + 1) % UINT8_MOD,
                 !.msg_received = 0],
              rxmsg, FALSE)
    ELSE Step([status EXCEPT !.msg_received = 1,
                             !.parse_state = MAVLINK_PARSE_STATE_IDLE],
              rxmsg, TRUE)

\* a second checksum byte that is not compared
case_GOT_CRC1_unchecked(status, rxmsg, c) ==
    Step([status EXCEPT !.msg_received = 1,
                        !.parse_state = MAVLINK_PARSE_STATE_IDLE],
         rxmsg, TRUE)

case_GOT_CRC1(status, rxmsg, c) ==
    IF c # rxmsg.ck_b
    THEN Step([status EXCEPT
                 !.parse_error = (status.parse_error + 1) % UINT8_MOD,
                 !.msg_received = 0,
                 !.parse_state = MAVLINK_PARSE_STATE_IDLE],
              rxmsg, FALSE)
    ELSE Step([status EXCEPT !.msg_received = 1,
                             !.parse_state = MAVLINK_PARSE_STATE_IDLE],
              rxmsg, TRUE)

\* switch (status->parse_state); a value outside the enumeration matches no case
parse_switch(status, rxmsg, c) ==
    CASE status.parse_state \in {MAVLINK_PARSE_STATE_UNINIT, MAVLINK_PARSE_STATE_IDLE}
            -> case_IDLE(status, rxmsg, c)
      [] status.parse_state = MAVLINK_PARSE_STATE_GOT_STX -> case_GOT_STX(status, rxmsg, c)
      [] status.parse_state = MAVLINK_PARSE_STATE_GOT_LENGTH -> case_GOT_LENGTH(status, rxmsg, c)
      [] status.parse_state = MAVLINK_PARSE_STATE_GOT_SEQ -> case_GOT_SEQ(status, rxmsg, c)
      [] status.parse_state = MAVLINK_PARSE_STATE_GOT_SYSID -> case_GOT_SYSID(status, rxmsg, c)
      [] status.parse_state = MAVLINK_PARSE_STATE_GOT_COMPID -> case_GOT_COMPID(status, rxmsg, c)
      [] status.parse_state = MAVLINK_PARSE_STATE_GOT_MSGID -> case_GOT_MSGID(status, rxmsg, c)
      [] status.parse_state = MAVLINK_PARSE_STATE_GOT_PAYLOAD -> case_GOT_PAYLOAD(status, rxmsg, c)
      [] status.parse_state = MAVLINK_PARSE_STATE_GOT_CRC1 -> case_GOT_CRC1(status, rxmsg, c)
      [] OTHER -> Step(status, rxmsg, FALSE)

\* while (status->current_seq != rxmsg->seq) { drop_count++; current_seq++; }
\* current_seq is 8 bits wide and wraps, so the body runs
\* (target - current_seq) mod 256 times and leaves current_seq = target.
drop_loop(status, target) ==
    LET n == (target + UINT8_MOD - status.current_seq) % UINT8_MOD
    IN  [status EXCEPT
            !.packet_rx_drop_count = (status.packet_rx_drop_count + n) % UINT16_MOD,
            !.current_seq = (status.current_seq + n) % UINT8_MOD]

\* the accounting without the first-message reset of the drop counter
loss_accounting_noreset(status, rxmsg) ==
    LET s2 == [drop_loop(status, rxmsg.seq) EXCEPT !.current_seq = rxmsg.seq]
    IN  [s2 EXCEPT !.packet_rx_success_count =
                       (s2.packet_rx_success_count + 1) % UINT16_MOD]

\* the accounting that counts a received message only when none was dropped
loss_accounting_skipcount(status, rxmsg) ==
    LET s1 == drop_loop(status, rxmsg.seq)
        s2 == [s1 EXCEPT !.current_seq = rxmsg.seq]
        s3 == IF s2.packet_rx_success_count = 0
              THEN [s2 EXCEPT !.packet_rx_drop_count = 0]
              ELSE s2
    IN  IF s1.packet_rx_drop_count # status.packet_rx_drop_count
        THEN s3
        ELSE [s3 EXCEPT !.packet_rx_success_count =
                            (s3.packet_rx_success_count + 1) % UINT16_MOD]

\* the block run when status->msg_received == 1
loss_accounting(status, rxmsg) ==
    LET s1 == drop_loop(status, rxmsg.seq)
        s2 == [s1 EXCEPT !.current_seq = rxmsg.seq]
        s3 == IF s2.packet_rx_success_count = 0
              THEN [s2 EXCEPT !.packet_rx_drop_count = 0]
              ELSE s2
    IN  [s3 EXCEPT !.packet_rx_success_count =
                       (s3.packet_rx_success_count + 1) % UINT16_MOD]

\* a report of the last accepted sequence number itself
status_report_last(status) ==
    [current_seq |-> status.current_seq,
     packet_rx_success_count |-> status.packet_rx_success_count,
     packet_rx_drop_count |-> status.packet_rx_drop_count]

\* what the call copies to *r_mavlink_status
status_report(status) ==
    [current_seq |-> (status.current_seq + 1) % UINT8_MOD,
     packet_rx_success_count |-> status.packet_rx_success_count,
     packet_rx_drop_count |-> status.packet_rx_drop_count]

\* the end of the call: what it leaves in the statics, copies out and returns
parse_result(st, sw, r_msg) ==
    [status |-> st,
     rxmsg |-> sw.rxmsg,
     r_message |-> IF sw.copied THEN sw.rxmsg ELSE r_msg,
     r_mavlink_status |-> status_report(st),
     ret |-> st.msg_received]

\* if (status->msg_received == 1) { ... } and the copies that follow
after_switch(sw, r_msg) ==
    parse_result(IF sw.status.msg_received = 1
                 THEN loss_accounting(sw.status, sw.rxmsg)
                 ELSE sw.status,
                 sw, r_msg)

\* status->msg_received = 0;
rearm(status) == [status EXCEPT !.msg_received = 0]

\* One call mavlink_parse_char(chan, c, r_message, r_mavlink_status) on the
\* channel's statics (status0, rxmsg0) with the caller's message buffer r_msg.
mavlink_parse_char(status0, rxmsg0, c, r_msg) ==
    after_switch(parse_switch(rearm(mavlink_parse_state_initialize(status0)),
                              rxmsg0, c),
                 r_msg)

\* -------------------------------------------------------------- state
VARIABLES
    seq,                \* finalize_message's static sequence counter
    txmsg,              \* the sender's mavlink_message_t
    txret,              \* what the last finalize_message returned
    buffer,             \* the sender's transmit buffer, -1 where never written
    buflen,             \* what the last message_to_send_buffer returned
    spc,                \* sender: "draft", "finalized" or "packed"
    finalized,          \* finalize_message calls made so far
    produced,           \* frame bytes the sender has produced so far
    faults,             \* transport faults so far
    wire,               \* per channel: bytes received and not yet parsed
    m_mavlink_status,   \* mavlink_parse_char's static status table
    m_mavlink_message,  \* mavlink_parse_char's static message table
    r_message,          \* per channel: the caller's message buffer
    r_mavlink_status,   \* per channel: the caller's status buffer
    ret,                \* per channel: what the last mavlink_parse_char returned
    ncalls,             \* per channel: mavlink_parse_char calls so far
    sinceStx,           \* per channel: calls since the one that took a delimiter
    txlog,              \* per channel: the frames put on the wire
    rxlog,              \* per channel: the calls that returned 1
    putbuf,             \* the memory a put_*_by_index call is handed
    putret,             \* what the last put_*_by_index call returned
    putcall,            \* the last put_*_by_index call and its arguments
    thr,                \* per thread in finalize_message: position and locals
    mutex,              \* the callers' lock around finalize_message: its holder
    serialised          \* whether the callers take that lock

sender == <<seq, txmsg, txret, buffer, buflen, spc, finalized, produced>>
receiver == <<m_mavlink_status, m_mavlink_message, r_message, r_mavlink_status,
              ret, ncalls, sinceStx, rxlog>>
\* the field packers' and the concurrent callers' state
aside == <<putbuf, putret, putcall, thr, mutex, serialised>>
vars == <<seq, txmsg, txret, buffer, buflen, spc, finalized, produced, faults,
          wire, m_mavlink_status, m_mavlink_message, r_message,
          r_mavlink_status, ret, ncalls, sinceStx, txlog, rxlog,
          putbuf, putret, putcall, thr, mutex, serialised>>

\* no field packer has been called, no thread is inside finalize_message
AsideInit ==
    /\ putbuf = <<>>
    /\ putret = 0
    /\ putcall = <<>>
    /\ thr = <<>>
    /\ mutex = 0
    /\ serialised = FALSE

BufCap == MaxLen + MAVLINK_NUM_NON_PAYLOAD_BYTES + 1

\* a context shared by every channel
channel_slot_shared(chan) == 0

\* &m_mavlink_status[chan], &m_mavlink_message[chan]
channel_slot(chan) == chan

FramingInitOn(s0, chans) ==
    /\ seq = s0
    /\ txmsg = NoMessage
    /\ txret = 0
    /\ buffer = [i \in 0..(BufCap - 1) |-> -1]
    /\ buflen = 0
    /\ spc = "draft"
    /\ finalized = 0
    /\ produced = 0
    /\ faults = 0
    /\ wire = [ch \in chans |-> <<>>]
    /\ m_mavlink_status = [ch \in chans |-> NoStatus]
    /\ m_mavlink_message = [ch \in chans |-> NoMessage]
    /\ r_message = [ch \in chans |-> NoMessage]
    /\ r_mavlink_status = [ch \in chans |-> NoReport]
    /\ ret = [ch \in chans |-> 0]
    /\ ncalls = [ch \in chans |-> 0]
    /\ sinceStx = [ch \in chans |-> 0]
    /\ txlog = [ch \in chans |-> <<>>]
    /\ rxlog = [ch \in chans |-> <<>>]

FramingInit(s0) == FramingInitOn(s0, Channels)

InitFrom(s0) == FramingInit(s0) /\ AsideInit

\* The receiver's channels are fresh; the sending endpoint has made no
\* finalize call yet, or 255 of them for frames that went to other links.
Init == \E s0 \in StartSeqs : InitFrom(s0)

\* ------------------------------------------------------------ actions
\* The caller sets the message kind and payload of the draft, then calls
\* finalize_message(&msg, system_id, component_id, length).
Finalize(origin, msgid, payload) ==
    LET draft == [txmsg EXCEPT !.msgid = msgid, !.payload = payload]
    IN  /\ txmsg' = finalize_message_msg(draft, origin[1], origin[2], Len(payload), seq)
        /\ seq' = finalize_message_seq(seq)
        /\ txret' = finalize_message_ret(Len(payload))
        /\ spc' = "finalized"
        /\ finalized' = finalized + 1
        /\ UNCHANGED <<buffer, buflen, faults, wire, txlog>>
        /\ UNCHANGED receiver
        /\ UNCHANGED aside

SendFinalize ==
    /\ spc = "draft"
    /\ \E origin \in Origins, msgid \in MsgIds, payload \in Payloads :
          /\ produced + Len(payload) + MAVLINK_NUM_NON_PAYLOAD_BYTES <= MaxBytes
          /\ produced' = produced + Len(payload) + MAVLINK_NUM_NON_PAYLOAD_BYTES
          /\ Finalize(origin, msgid, payload)

\* message_to_send_buffer(buffer, &msg)
ToSendBuffer ==
    /\ spc = "finalized"
    /\ LET bytes == message_to_send_buffer_bytes(txmsg)
       IN  buffer' = [i \in DOMAIN buffer |->
                         IF i < Len(bytes) THEN bytes[i + 1] ELSE buffer[i]]
    /\ buflen' = message_to_send_buffer_ret(txmsg)
    /\ spc' = "packed"
    /\ UNCHANGED <<seq, txmsg, txret, finalized, produced, faults, wire, txlog>>
    /\ UNCHANGED receiver
    /\ UNCHANGED aside

Packed == [i \in 1..buflen |-> buffer[i - 1]]

PutOnWire(ch, kind, bytes) ==
    /\ wire' = [wire EXCEPT ![ch] = bytes]
    /\ txlog' = [txlog EXCEPT ![ch] =
                    Append(@, [kind |-> kind, msg |-> txmsg, bytes |-> bytes,
                               start |-> ncalls[ch],
                               pstate |-> m_mavlink_status[ch].parse_state])]
    /\ spc' = "draft"
    /\ UNCHANGED <<seq, txmsg, txret, buffer, buflen, finalized, produced>>
    /\ UNCHANGED receiver
    /\ UNCHANGED aside

\* the transport carries the packed frame to a channel unharmed
Transmit(ch) ==
    /\ spc = "packed"
    /\ wire[ch] = <<>>
    /\ PutOnWire(ch, "intact", Packed)
    /\ UNCHANGED faults

\* a frame is well formed: delimiter, length matching its size, checksum of
\* bytes 1..length+5 in the two trailer bytes, low byte first
WellFormed(bytes) ==
    /\ Len(bytes) >= MAVLINK_NUM_NON_PAYLOAD_BYTES
    /\ bytes[1] = MAVLINK_STX
    /\ Len(bytes) = bytes[2] + MAVLINK_NUM_NON_PAYLOAD_BYTES
    /\ LET ck == crc_calculate(SubSeq(bytes, 2, Len(bytes) - 2), Len(bytes) - 3)
       IN  /\ bytes[Len(bytes) - 1] = ck % 256
           /\ bytes[Len(bytes)] = ck \div 256

\* the transport alters one byte after the delimiter, leaving an invalid frame
TransmitAltered(ch) ==
    /\ spc = "packed"
    /\ wire[ch] = <<>>
    /\ faults < MaxFaults
    /\ \E pos \in 2..buflen, val \in AlteredTo :
          /\ val # Packed[pos]
          /\ ~WellFormed([Packed EXCEPT ![pos] = val])
          /\ PutOnWire(ch, "altered", [Packed EXCEPT ![pos] = val])
    /\ faults' = faults + 1

\* the transport loses the whole frame
Lose ==
    /\ spc = "packed"
    /\ faults < MaxFaults
    /\ faults' = faults + 1
    /\ spc' = "draft"
    /\ UNCHANGED <<seq, txmsg, txret, buffer, buflen, finalized, produced, wire, txlog>>
    /\ UNCHANGED receiver
    /\ UNCHANGED aside

\* a stray byte between frames
Stray(ch) ==
    /\ wire[ch] = <<>>
    /\ faults < MaxFaults
    /\ \E c \in StrayBytes : wire' = [wire EXCEPT ![ch] = <<c>>]
    /\ faults' = faults + 1
    /\ UNCHANGED txlog
    /\ UNCHANGED sender
    /\ UNCHANGED receiver
    /\ UNCHANGED aside

\* the receive loop: one byte of the channel handed to mavlink_parse_char
ParseChar(ch) ==
    /\ wire[ch] # <<>>
    /\ \E out \in {mavlink_parse_char(m_mavlink_status[channel_slot(ch)],
                                       m_mavlink_message[channel_slot(ch)],
                                       Head(wire[ch]), r_message[ch])} :
           /\ m_mavlink_status' =
                 [m_mavlink_status EXCEPT ![channel_slot(ch)] = out.status]
           /\ m_mavlink_message' =
                 [m_mavlink_message EXCEPT ![channel_slot(ch)] = out.rxmsg]
           /\ r_message' = [r_message EXCEPT ![ch] = out.r_message]
           /\ r_mavlink_status' = [r_mavlink_status EXCEPT ![ch] = out.r_mavlink_status]
           /\ ret' = [ret EXCEPT ![ch] = out.ret]
           /\ rxlog' = [rxlog EXCEPT ![ch] =
                           IF out.ret = 1
                           THEN Append(@, [at |-> ncalls[ch] + 1, msg |-> out.r_message])
                           ELSE @]
    /\ sinceStx' = [sinceStx EXCEPT ![ch] =
                       IF m_mavlink_status[channel_slot(ch)].parse_state
                              \in {MAVLINK_PARSE_STATE_UNINIT, MAVLINK_PARSE_STATE_IDLE}
                       THEN 0 ELSE @ + 1]
    /\ ncalls' = [ncalls EXCEPT ![ch] = @ + 1]
    /\ wire' = [wire EXCEPT ![ch] = Tail(@)]
    /\ UNCHANGED <<faults, txlog>>
    /\ UNCHANGED sender
    /\ UNCHANGED aside

Next ==
    \/ SendFinalize
    \/ ToSendBuffer
    \/ \E ch \in Channels : Transmit(ch)
    \/ \E ch \in Channels : TransmitAltered(ch)
    \/ Lose
    \/ \E ch \in Channels : Stray(ch)
    \/ \E ch \in Channels : ParseChar(ch)

Spec == Init /\ [][Next]_vars

\* The sequence-counter run: finalize_message called MaxCalls times in a row
\* by one process, starting from the counter's initial value.
SeqInit == InitFrom(0)

SeqFinalize ==
    /\ finalized < MaxCalls
    /\ \E origin \in Origins, msgid \in MsgIds, payload \in Payloads :
          Finalize(origin, msgid, payload)
    /\ UNCHANGED produced

SeqNext == SeqFinalize

SpecSeq == SeqInit /\ [][SeqNext]_vars

\* The two-channel run: the frames of one sender go to either of two
\* channels, one of them possibly altered, and the receive loops of the two
\* channels call mavlink_parse_char in any interleaving.
ChanInit == FramingInitOn(0, CommChannels) /\ AsideInit

ChanOrigins == {<<1, 200>>}

ChanFinalize ==
    /\ spc = "draft"
    /\ \E origin \in ChanOrigins, msgid \in MsgIds, payload \in Payloads :
          /\ produced + Len(payload) + MAVLINK_NUM_NON_PAYLOAD_BYTES <= MaxBytes
          /\ produced' = produced + Len(payload) + MAVLINK_NUM_NON_PAYLOAD_BYTES
          /\ Finalize(origin, msgid, payload)

ChanNext ==
    \/ ChanFinalize
    \/ ToSendBuffer
    \/ \E ch \in CommChannels : Transmit(ch)
    \/ \E ch \in CommChannels : TransmitAltered(ch)
    \/ \E ch \in CommChannels : ParseChar(ch)

SpecChan == ChanInit /\ [][ChanNext]_vars

\* The concurrent run: two threads call finalize_message, each on a message
\* of its own.  `msg->seq = seq++` is a load of the static counter followed
\* by a store to it, with nothing to keep another thread from running in
\* between; callers may or may not hold a lock of their own around the call.
Threads == {1, 2}

RaceInit ==
    /\ FramingInit(0)
    /\ putbuf = <<>>
    /\ putret = 0
    /\ putcall = <<>>
    /\ thr = [t \in Threads |->
                 [pc |-> "idle", tmp |-> 0, msg |-> NoMessage, stamps |-> <<>>]]
    /\ mutex = 0
    /\ serialised \in BOOLEAN

RaceFrame ==
    /\ UNCHANGED <<txmsg, txret, buffer, buflen, spc, finalized, produced>>
    /\ UNCHANGED <<faults, wire, txlog, putbuf, putret, putcall, serialised>>
    /\ UNCHANGED receiver

\* the call starts, behind the callers' lock when they use one
RaceEnter(t) ==
    /\ thr[t].pc = "idle"
    /\ Len(thr[t].stamps) < MaxThreadCalls
    /\ serialised => mutex = 0
    /\ mutex' = IF serialised THEN t ELSE mutex
    /\ thr' = [thr EXCEPT ![t].pc = "load"]
    /\ UNCHANGED seq
    /\ RaceFrame

\* seq++ : the counter is read
RaceLoad(t) ==
    /\ thr[t].pc = "load"
    /\ thr' = [thr EXCEPT ![t].pc = "store", ![t].tmp = seq]
    /\ UNCHANGED <<seq, mutex>>
    /\ RaceFrame

\* seq++ : the counter is written; msg->seq and the checksum are set
RaceStore(t) ==
    /\ thr[t].pc = "store"
    /\ seq' = finalize_message_seq(thr[t].tmp)
    /\ thr' = [thr EXCEPT ![t].pc = "return",
                          ![t].msg = finalize_message_msg(
                                        [NoMessage EXCEPT !.msgid = MAVLINK_STX],
                                        1, t, 0, thr[t].tmp)]
    /\ UNCHANGED mutex
    /\ RaceFrame

\* the call returns and the caller releases its lock
RaceReturn(t) ==
    /\ thr[t].pc = "return"
    /\ thr' = [thr EXCEPT ![t].pc = "idle",
                          ![t].stamps = Append(@, thr[t].msg.seq)]
    /\ mutex' = IF serialised THEN 0 ELSE mutex
    /\ UNCHANGED seq
    /\ RaceFrame

RaceNext ==
    \/ \E t \in Threads : RaceEnter(t)
    \/ \E t \in Threads : RaceLoad(t)
    \/ \E t \in Threads : RaceStore(t)
    \/ \E t \in Threads : RaceReturn(t)

SpecRace == RaceInit /\ [][RaceNext]_vars

\* The bit-flip run: the first frame of a sender reaches a fresh channel with
\* one bit of one byte after the delimiter inverted.
FlipPayloads == Payloads \cup {<<22, 107>>}
FlipBits == 0..7

RECURSIVE Pow2(_)
Pow2(n) == IF n = 0 THEN 1 ELSE 2 * Pow2(n - 1)

FlipFinalize ==
    /\ spc = "draft"
    /\ finalized = 0
    /\ \E origin \in Origins, msgid \in MsgIds, payload \in FlipPayloads :
          Finalize(origin, msgid, payload)
    /\ UNCHANGED produced

TransmitFlipped(ch) ==
    /\ spc = "packed"
    /\ wire[ch] = <<>>
    /\ \E pos \in 2..buflen, bit \in FlipBits :
          PutOnWire(ch, "flipped", [Packed EXCEPT ![pos] = Xor8(@, Pow2(bit))])
    /\ UNCHANGED faults

FlipNext ==
    \/ FlipFinalize
    \/ ToSendBuffer
    \/ \E ch \in Channels : TransmitFlipped(ch)
    \/ \E ch \in Channels : ParseChar(ch)

SpecFlip == Init /\ [][FlipNext]_vars

\* The field-packing run: a caller packs up to MaxPuts fields into one
\* zeroed buffer of MAVLINK_MAX_PAYLOAD_LEN bytes; the indices below 0 are the
\* bytes in front of it.
PutInit ==
    /\ FramingInit(0)
    /\ putbuf = [i \in INT8_MIN..(MAVLINK_MAX_PAYLOAD_LEN - 1) |-> 0]
    /\ putret = 0
    /\ putcall = <<>>
    /\ thr = <<>>
    /\ mutex = 0
    /\ serialised = FALSE

\* one call fn(b, bindex, buffer) writing n bytes, with what it leaves
PutStep(fn, b, bindex, n, out) ==
    /\ putbuf' = out.buffer
    /\ putret' = out.ret
    /\ putcall' = Append(putcall, [fn |-> fn, b |-> b, bindex |-> bindex, n |-> n])
    /\ UNCHANGED <<thr, mutex, serialised, faults, wire, txlog>>
    /\ UNCHANGED sender
    /\ UNCHANGED receiver

PutUint8 ==
    /\ Len(putcall) < MaxPuts
    /\ \E b \in Values_uint8, bindex \in PutOffsets :
           PutStep("put_uint8_t_by_index", b, bindex, 1,
                   put_uint8_t_by_index(b, bindex, putbuf))

PutInt8 ==
    /\ Len(putcall) < MaxPuts
    /\ \E b \in Values_int8, bindex \in PutOffsets, landed \in BOOLEAN :
           PutStep("put_int8_by_index", b, bindex, 1,
                   put_int8_by_index(b, bindex, putbuf, landed))

PutUint16 ==
    /\ Len(putcall) < MaxPuts
    /\ \E b \in Values_uint16, bindex \in PutOffsets :
           PutStep("put_uint16_t_by_index", b, bindex, 2,
                   put_uint16_t_by_index(b, bindex, putbuf))

PutInt16 ==
    /\ Len(putcall) < MaxPuts
    /\ \E b \in Values_int16, bindex \in PutOffsets :
           PutStep("put_int16_t_by_index", b, bindex, 2,
                   put_int16_t_by_index(b, bindex, putbuf))

PutUint32 ==
    /\ Len(putcall) < MaxPuts
    /\ \E b \in Values_uint32, bindex \in PutOffsets :
           PutStep("put_uint32_t_by_index", b, bindex, 4,
                   put_uint32_t_by_index(b, bindex, putbuf))

PutInt32 ==
    /\ Len(putcall) < MaxPuts
    /\ \E b \in Values_int32, bindex \in PutOffsets :
           PutStep("put_int32_t_by_index", b, bindex, 4,
                   put_int32_t_by_index(b, bindex, putbuf))

PutUint64 ==
    /\ Len(putcall) < MaxPuts
    /\ \E b \in Values_uint64, bindex \in PutOffsets :
           PutStep("put_uint64_t_by_index", b, bindex, 8,
                   put_uint64_t_by_index(b, bindex, putbuf))

PutInt64 ==
    /\ Len(putcall) < MaxPuts
    /\ \E b \in Values_int64, bindex \in PutOffsets :
           PutStep("put_int64_t_by_index", b, bindex, 8,
                   put_int64_t_by_index(b, bindex, putbuf))

PutFloat ==
    /\ Len(putcall) < MaxPuts
    /\ \E b \in Values_float, bindex \in PutOffsets :
           PutStep("put_float_by_index", b, bindex, 4,
                   put_float_by_index(b, bindex, putbuf))

PutArray ==
    /\ Len(putcall) < MaxPuts
    /\ \E b \in Values_array, bindex \in PutOffsets :
           PutStep("put_array_by_index", b, bindex, Len(b),
                   put_array_by_index(b, Len(b), bindex, putbuf))

PutNext ==
    \/ PutUint8
    \/ PutInt8
    \/ PutUint16
    \/ PutInt16
    \/ PutUint32
    \/ PutInt32
    \/ PutUint64
    \/ PutInt64
    \/ PutFloat
    \/ PutArray

SpecPut == PutInit /\ [][PutNext]_vars

\* ----------------------------------------------------- claim vocabulary
Waiting == {MAVLINK_PARSE_STATE_UNINIT, MAVLINK_PARSE_STATE_IDLE}

\* the call being made in a step: mavlink_parse_char on channel ch
IsCall(ch) == ncalls'[ch] = ncalls[ch] + 1

\* the fields of a message that are meaningful
SameMessage(a, b) ==
    /\ a.len = b.len /\ a.seq = b.seq /\ a.sysid = b.sysid
    /\ a.compid = b.compid /\ a.msgid = b.msgid
    /\ Len(a.payload) >= a.len /\ Len(b.payload) >= b.len
    /\ SubSeq(a.payload, 1, a.len) = SubSeq(b.payload, 1, b.len)

FrameEnd(f) == f.start + Len(f.bytes)

\* the calls that returned 1 while the bytes (from, to] of the channel were fed
AcceptsIn(ch, from, to) ==
    {i \in 1..Len(rxlog[ch]) : rxlog[ch][i].at > from /\ rxlog[ch][i].at <= to}

\* ----------------------------------------------------------------- C1
\* C1: a finalized message, packed by message_to_send_buffer into length+8
\* bytes and fed byte by byte to a fresh channel, makes mavlink_parse_char
\* return 0 on every byte but the last and 1 on the last, and the message
\* copied out has the length, sequence, ids, kind and payload[0..length) of
\* the finalized one.
C1_RoundTrip ==
    \A ch \in Channels :
        (txlog[ch] # <<>> /\ txlog[ch][1].kind = "intact" /\ txlog[ch][1].start = 0)
        => LET f == txlog[ch][1]
               n == f.msg.len + 8
           IN  /\ Len(f.bytes) = n
               /\ AcceptsIn(ch, 0, n - 1) = {}
               /\ (ncalls[ch] \in 1..(n - 1)) => ret[ch] = 0
               /\ (ncalls[ch] = n) => ret[ch] = 1
               /\ (ncalls[ch] >= n) =>
                     /\ rxlog[ch] # <<>>
                     /\ rxlog[ch][1].at = n
                     /\ SameMessage(rxlog[ch][1].msg, f.msg)

C1_Witness ==
    \E ch \in Channels :
        /\ txlog[ch] # <<>> /\ txlog[ch][1].kind = "intact" /\ txlog[ch][1].start = 0
        /\ txlog[ch][1].msg.len = MaxLen
        /\ ncalls[ch] = MaxLen + 8
        /\ ret[ch] = 1
        /\ r_message[ch].payload = txlog[ch][1].msg.payload

\* ----------------------------------------------------------------- C2
\* an altered frame directly followed on the channel by an intact one
AlteredThenIntact(ch, i) ==
    /\ i + 1 <= Len(txlog[ch])
    /\ txlog[ch][i].kind = "altered"
    /\ txlog[ch][i + 1].kind = "intact"
    /\ txlog[ch][i + 1].start = FrameEnd(txlog[ch][i])

\* C2 as claimed: whatever non-delimiter byte of a frame was altered (the
\* length byte included), feeding the invalid frame and then a well-formed
\* frame makes exactly one call return 1, and it yields the well-formed one.
C2_Original ==
    \A ch \in Channels : \A i \in 1..Len(txlog[ch]) :
        (AlteredThenIntact(ch, i) /\ ncalls[ch] >= FrameEnd(txlog[ch][i + 1]))
        => LET good == txlog[ch][i + 1]
               hits == AcceptsIn(ch, txlog[ch][i].start, FrameEnd(good))
           IN  /\ Cardinality(hits) = 1
               /\ \A h \in hits : /\ rxlog[ch][h].at = FrameEnd(good)
                                  /\ SameMessage(rxlog[ch][h].msg, good.msg)

\* C2 amended: when the altered frame keeps its length byte and reaches a
\* channel that waits for a delimiter, no call returns 1 during it, and after
\* its last byte the channel waits for a delimiter again or, only when that
\* last byte is 0x55, has taken it for a delimiter; and if the channel waits
\* for a delimiter after its last byte, the intact frame that follows is
\* decoded: exactly one call returns 1, on that frame's last byte, yielding
\* that frame.
C2_Amended ==
    \A ch \in Channels : \A i \in 1..Len(txlog[ch]) :
        (/\ AlteredThenIntact(ch, i)
         /\ txlog[ch][i].bytes[2] = txlog[ch][i].msg.len
         /\ txlog[ch][i].pstate \in Waiting)
        => LET bad == txlog[ch][i]
               good == txlog[ch][i + 1]
               hits == AcceptsIn(ch, bad.start, FrameEnd(good))
           IN  /\ AcceptsIn(ch, bad.start, FrameEnd(bad)) = {}
               /\ good.pstate \in Waiting \cup {MAVLINK_PARSE_STATE_GOT_STX}
               /\ (good.pstate = MAVLINK_PARSE_STATE_GOT_STX)
                     => bad.bytes[Len(bad.bytes)] = MAVLINK_STX
               /\ (good.pstate \in Waiting /\ ncalls[ch] >= FrameEnd(good))
                     => /\ Cardinality(hits) = 1
                        /\ \A h \in hits : /\ rxlog[ch][h].at = FrameEnd(good)
                                           /\ SameMessage(rxlog[ch][h].msg, good.msg)

C2_Witness ==
    \E ch \in Channels : \E i \in 1..Len(txlog[ch]) :
        /\ AlteredThenIntact(ch, i)
        /\ txlog[ch][i].bytes[2] = txlog[ch][i].msg.len
        /\ txlog[ch][i].pstate \in Waiting
        /\ txlog[ch][i + 1].pstate \in Waiting
        /\ ncalls[ch] = FrameEnd(txlog[ch][i + 1])
        /\ ret[ch] = 1
        /\ m_mavlink_status[ch].parse_error = 1

\* ----------------------------------------------------------------- C3
\* C3 as claimed: on every acceptance after the first, with p the last
\* accepted sequence and s the new one, the drop counter grows by exactly
\* (s - p - 1) mod 256, so by 0 when s = p + 1.
C3_Original ==
    [][\A ch \in Channels :
          (/\ IsCall(ch)
           /\ ret'[ch] = 1
           /\ m_mavlink_status[ch].packet_rx_success_count >= 1)
          => m_mavlink_status'[ch].packet_rx_drop_count
                = m_mavlink_status[ch].packet_rx_drop_count
                  + ((m_mavlink_message'[ch].seq + 255
                        - m_mavlink_status[ch].current_seq) % 256)]_vars

\* ----------------------------------------------------------------- C4
\* C4 as claimed: once a message has been decoded on a channel and not taken
\* by the caller, the byte handled in GOT_STX (the one after a fresh
\* delimiter) adds one to the overrun counter and one to the error counter
\* and returns the parser to IDLE.
C4_Original ==
    [][\A ch \in Channels :
          (/\ IsCall(ch)
           /\ m_mavlink_status[ch].parse_state = MAVLINK_PARSE_STATE_GOT_STX
           /\ rxlog[ch] # <<>>)
          => /\ m_mavlink_status'[ch].buffer_overrun
                   = m_mavlink_status[ch].buffer_overrun + 1
             /\ m_mavlink_status'[ch].parse_error
                   = m_mavlink_status[ch].parse_error + 1
             /\ m_mavlink_status'[ch].parse_state = MAVLINK_PARSE_STATE_IDLE]_vars

\* ----------------------------------------------------------------- C5
\* C5: the parse state never leaves UNINIT..GOT_CRC1; a parser that took a
\* delimiter is back waiting for one at the latest L + 7 bytes after it, L
\* being the length byte it read, whatever the bytes are; and a well-formed
\* frame that starts while the parser waits for a delimiter is decoded on
\* its last byte.
C5_NoTrap ==
    \A ch \in Channels :
        /\ m_mavlink_status[ch].parse_state
              \in MAVLINK_PARSE_STATE_UNINIT..MAVLINK_PARSE_STATE_GOT_CRC1
        /\ (m_mavlink_status[ch].parse_state \notin Waiting)
              => sinceStx[ch] <= m_mavlink_message[ch].len + 6
        /\ \A i \in 1..Len(txlog[ch]) :
              (/\ txlog[ch][i].kind = "intact"
               /\ txlog[ch][i].pstate \in Waiting
               /\ ncalls[ch] >= FrameEnd(txlog[ch][i]))
              => \E h \in 1..Len(rxlog[ch]) :
                    /\ rxlog[ch][h].at = FrameEnd(txlog[ch][i])
                    /\ SameMessage(rxlog[ch][h].msg, txlog[ch][i].msg)

C5_Witness ==
    \E ch \in Channels :
        /\ Len(txlog[ch]) = 2
        /\ txlog[ch][1].kind = "altered"
        /\ txlog[ch][2].kind = "intact"
        /\ txlog[ch][2].pstate = MAVLINK_PARSE_STATE_IDLE
        /\ m_mavlink_status[ch].parse_error = 1
        /\ ncalls[ch] = FrameEnd(txlog[ch][2])
        /\ m_mavlink_status[ch].parse_state = MAVLINK_PARSE_STATE_IDLE
        /\ ret[ch] = 1

\* ----------------------------------------------------------------- C6
\* C6: a call returns 1 exactly when the channel was in GOT_CRC1 and the byte
\* equals the second checksum byte of the running checksum; in those calls
\* the assembled message is copied to the caller and the received counter
\* grows by one; in all others the call returns 0 and leaves the caller's
\* message and the received counter as they were.
C6_Acceptance ==
    [][\A ch \in Channels :
          IsCall(ch)
          => LET accept ==
                    /\ m_mavlink_status[ch].parse_state = MAVLINK_PARSE_STATE_GOT_CRC1
                    /\ Head(wire[ch]) = m_mavlink_message[ch].ck_b
             IN  /\ ret'[ch] = (IF accept THEN 1 ELSE 0)
                 /\ accept =>
                       /\ r_message'[ch] = m_mavlink_message'[ch]
                       /\ m_mavlink_status'[ch].packet_rx_success_count
                             = m_mavlink_status[ch].packet_rx_success_count + 1
                 /\ ~accept =>
                       /\ r_message'[ch] = r_message[ch]
                       /\ m_mavlink_status'[ch].packet_rx_success_count
                             = m_mavlink_status[ch].packet_rx_success_count]_vars

C6_Witness ==
    \E ch \in Channels :
        /\ ret[ch] = 1
        /\ m_mavlink_status[ch].packet_rx_success_count = 2
        /\ m_mavlink_status[ch].packet_rx_drop_count > 0
        /\ r_message[ch] = m_mavlink_message[ch]
        /\ r_message[ch].len > 0

\* ----------------------------------------------------------------- C7
\* C7: after the first message accepted on a fresh channel the drop counter
\* is 0, whatever the message's sequence number and whatever rejected frames
\* or stray bytes came before it.
C7_FirstMessage ==
    \A ch \in Channels :
        m_mavlink_status[ch].packet_rx_success_count = 1
        => /\ m_mavlink_status[ch].packet_rx_drop_count = 0
           /\ (ret[ch] = 1 => r_mavlink_status[ch].packet_rx_drop_count = 0)

C7_Witness ==
    \E ch \in Channels :
        /\ m_mavlink_status[ch].packet_rx_success_count = 1
        /\ ret[ch] = 1
        /\ m_mavlink_status[ch].current_seq # 0
        /\ m_mavlink_status[ch].parse_error = 1

\* ----------------------------------------------------------------- C8
\* C8: the error counter grows by one in a call exactly when the call
\* compares the byte with a trailer checksum byte (state GOT_PAYLOAD or
\* GOT_CRC1) and they differ; the parser is then in IDLE and the call
\* returns 0.  No other call changes the error counter: not a stray byte
\* while waiting for a delimiter, not a header or payload byte.
C8_ErrorCount ==
    [][\A ch \in Channels :
          IsCall(ch)
          => LET st == m_mavlink_status[ch]
                 mismatch ==
                    \/ /\ st.parse_state = MAVLINK_PARSE_STATE_GOT_PAYLOAD
                       /\ Head(wire[ch]) # m_mavlink_message[ch].ck_a
                    \/ /\ st.parse_state = MAVLINK_PARSE_STATE_GOT_CRC1
                       /\ Head(wire[ch]) # m_mavlink_message[ch].ck_b
             IN  /\ mismatch =>
                       /\ m_mavlink_status'[ch].parse_error = st.parse_error + 1
                       /\ m_mavlink_status'[ch].parse_state = MAVLINK_PARSE_STATE_IDLE
                       /\ ret'[ch] = 0
                 /\ ~mismatch => m_mavlink_status'[ch].parse_error = st.parse_error]_vars

C8_Witness ==
    \E ch \in Channels :
        /\ m_mavlink_status[ch].parse_error = 1
        /\ m_mavlink_status[ch].parse_state = MAVLINK_PARSE_STATE_IDLE
        /\ ret[ch] = 0
        /\ sinceStx[ch] = m_mavlink_message[ch].len + 7

C10_Original ==
    (spc = "packed")
    => /\ txret = txmsg.len + 8
       /\ txret = buflen
       /\ txret = message_get_send_buffer_length(txmsg)

C12_IdempotentInit ==
    \A ch \in Channels :
        LET st == m_mavlink_status[ch]
        IN  /\ (st.parse_state \in
                   MAVLINK_PARSE_STATE_IDLE..MAVLINK_PARSE_STATE_GOT_CRC1)
                  => mavlink_parse_state_initialize(st) = st
            /\ (st.parse_state = MAVLINK_PARSE_STATE_UNINIT)
                  => /\ st.ck_a = 0 /\ st.ck_b = 0 /\ st.msg_received = 0
                     /\ st.buffer_overrun = 0 /\ st.parse_error = 0
                     /\ st.packet_idx = 0
                     /\ st.packet_rx_drop_count = 0
                     /\ st.packet_rx_success_count = 0
            /\ st.parse_state \in
                  MAVLINK_PARSE_STATE_UNINIT..MAVLINK_PARSE_STATE_GOT_CRC1

C12_Witness ==
    \E ch \in Channels :
        /\ m_mavlink_status[ch].parse_state = MAVLINK_PARSE_STATE_GOT_MSGID
        /\ m_mavlink_status[ch].packet_idx = 1
        /\ m_mavlink_status[ch].packet_rx_success_count = 1
        /\ m_mavlink_status[ch].current_seq = UINT8_MOD - 1
        /\ m_mavlink_status[ch].msg_received = 0
        /\ ncalls[ch] > 8

\* ---------------------------------------------------------------- C13
\* C13: with a stored length of 0 the call that consumes the message-kind
\* byte takes the parser from GOT_COMPID to GOT_PAYLOAD; the parser is never
\* in GOT_MSGID with a stored length of 0; a payload byte is written only by
\* a call made in GOT_MSGID; and a well-formed frame of length 0 that starts
\* while the parser waits for a delimiter is accepted by the 8th call, none
\* of the 7 before it returning 1.
C13_EmptyPayload ==
    [][\A ch \in Channels :
          IsCall(ch)
          => LET st == m_mavlink_status[ch]
                 rx == m_mavlink_message[ch]
             IN  /\ (st.parse_state = MAVLINK_PARSE_STATE_GOT_COMPID /\ rx.len = 0)
                       => /\ m_mavlink_status'[ch].parse_state
                                = MAVLINK_PARSE_STATE_GOT_PAYLOAD
                          /\ m_mavlink_status'[ch].packet_idx = 0
                 /\ (m_mavlink_status'[ch].parse_state = MAVLINK_PARSE_STATE_GOT_MSGID)
                       => m_mavlink_message'[ch].len # 0
                 /\ (m_mavlink_message'[ch].payload # rx.payload)
                       => /\ st.parse_state = MAVLINK_PARSE_STATE_GOT_MSGID
                          /\ rx.len # 0
                 /\ \A i \in 1..Len(txlog[ch]) :
                       (/\ txlog[ch][i].kind = "intact"
                        /\ txlog[ch][i].msg.len = 0
                        /\ txlog[ch][i].pstate \in Waiting
                        /\ ncalls'[ch] \in (txlog[ch][i].start + 1)..FrameEnd(txlog[ch][i]))
                       => /\ FrameEnd(txlog[ch][i]) = txlog[ch][i].start + 8
                          /\ ret'[ch] = (IF ncalls'[ch] = txlog[ch][i].start + 8
                                         THEN 1 ELSE 0)]_vars

C13_Witness ==
    \E ch \in Channels :
        /\ ret[ch] = 1
        /\ sinceStx[ch] = 7
        /\ r_message[ch].len = 0
        /\ Len(r_message[ch].payload) = MaxLen
        /\ m_mavlink_status[ch].packet_idx = 0
        /\ m_mavlink_status[ch].packet_rx_success_count = 2

\* ---------------------------------------------------------------- C14
RECURSIVE BigEndian(_, _)
\* the n bytes of b in two's complement, most significant first
BigEndian(b, n) ==
    IF n = 0 THEN <<>> ELSE Append(BigEndian(b \div 256, n - 1), b % 256)

\* the bytes a call is to leave at buffer[bindex..bindex+n)
Packing(call) ==
    IF call.fn = "put_array_by_index"
    THEN [k \in 1..call.n |-> call.b[k] % 256]
    ELSE BigEndian(call.b, call.n)

\* C14 as claimed: every put call of width 8, 16, 32 or 64 bits, signed or
\* unsigned, at an offset in 0..255 that keeps the write inside the payload
\* buffer, and every put_array_by_index call, leaves the big-endian bytes of
\* its value (the array's bytes) at buffer[offset..offset+n), changes no
\* other byte and returns n.
C14_Original ==
    [][(Len(putcall') = Len(putcall) + 1)
       => LET call == putcall'[Len(putcall')]
              written == call.bindex..(call.bindex + call.n - 1)
          IN  (/\ call.fn # "put_float_by_index"
               /\ call.bindex + call.n <= MAVLINK_MAX_PAYLOAD_LEN)
              => /\ \A i \in written :
                       putbuf'[i] = Packing(call)[i - call.bindex + 1]
                 /\ \A i \in DOMAIN putbuf :
                       i \notin written => putbuf'[i] = putbuf[i]
                 /\ putret' = call.n]_vars

RECURSIVE Accumulated(_, _)
\* the checksum crc after the bytes are accumulated into it, first to last
Accumulated(bytes, crc) ==
    IF bytes = <<>> THEN crc
    ELSE Accumulated(Tail(bytes), crcAccumulate(Head(bytes), crc))

RECURSIVE Sent(_, _)
\* the bytes of the first n frames put on a channel
Sent(log, n) == IF n = 0 THEN <<>> ELSE Sent(log, n - 1) \o log[n].bytes

\* a channel and its caller before the first call, with the messages decoded
FedStart ==
    [run |-> [status |-> NoStatus, rxmsg |-> NoMessage, r_message |-> NoMessage,
              r_mavlink_status |-> NoReport, ret |-> 0],
     log |-> <<>>]

Decoded(prev, out) ==
    [run |-> out,
     log |-> IF out.ret = 1 THEN Append(prev.log, out.r_message) ELSE prev.log]

FedStep(prev, c) ==
    Decoded(prev, mavlink_parse_char(prev.run.status, prev.run.rxmsg, c,
                                     prev.run.r_message))

RECURSIVE FedAlone(_, _)
\* the first n of the bytes fed, one call each, to a channel of its own
FedAlone(bytes, n) ==
    IF n = 0 THEN FedStart ELSE FedStep(FedAlone(bytes, n - 1), bytes[n])

\* a channel's statics, its caller's buffers, the last return value and the
\* calls that returned 1 are those of the channel fed alone
AsAlone(alone, status, rxmsg, r_msg, r_status, r, accepted) ==
    /\ status = alone.run.status
    /\ rxmsg = alone.run.rxmsg
    /\ r_msg = alone.run.r_message
    /\ r_status = alone.run.r_mavlink_status
    /\ r = alone.run.ret
    /\ [i \in 1..Len(accepted) |-> accepted[i].msg] = alone.log

\* C17: with two channels fed in any interleaving, a call on one channel
\* changes no parse state, partial message, counter, decoded message or
\* return value of the other; and whenever the channels have consumed the
\* frames sent to them, the state, the counters and the messages decoded of
\* each are those its own bytes give when fed alone to a fresh channel.
C17_Independence ==
    [][\A ch \in CommChannels :
          IsCall(ch)
          => /\ \A o \in CommChannels \ {ch} :
                   /\ m_mavlink_status'[o] = m_mavlink_status[o]
                   /\ m_mavlink_message'[o] = m_mavlink_message[o]
                   /\ r_message'[o] = r_message[o]
                   /\ r_mavlink_status'[o] = r_mavlink_status[o]
                   /\ ret'[o] = ret[o]
                   /\ rxlog'[o] = rxlog[o]
             /\ (\A o \in CommChannels : wire'[o] = <<>>)
                   => \A o \in CommChannels :
                         AsAlone(FedAlone(Sent(txlog[o], Len(txlog[o])), ncalls'[o]),
                                 m_mavlink_status'[o], m_mavlink_message'[o],
                                 r_message'[o], r_mavlink_status'[o], ret'[o],
                                 rxlog'[o])]_vars

C17_Witness ==
    /\ DOMAIN wire = CommChannels
    /\ wire[0] # <<>>
    /\ m_mavlink_status[0].parse_state = MAVLINK_PARSE_STATE_GOT_MSGID
    /\ txlog[0][1].kind = "altered"
    /\ wire[1] = <<>>
    /\ ret[1] = 1
    /\ txlog[1][1].start = 0
    /\ m_mavlink_status[1].packet_rx_success_count = 1
    /\ m_mavlink_status[1].parse_error = 0

\* ---------------------------------------------------------------- C18
\* the sequence numbers a thread has stamped on its messages so far
StampedBy(t) ==
    thr[t].stamps \o (IF thr[t].pc = "return" THEN <<thr[t].msg.seq>> ELSE <<>>)

\* C18: when the callers serialise finalize_message with a lock, the
\* sequence numbers stamped by the two threads are pairwise different and
\* the counter has advanced by one per stamped message; without the lock a
\* state is reachable where both threads stamped the same number and the
\* counter advanced by one for the two calls (the witness).
C18_SerialisedSequence ==
    serialised
    => LET all == StampedBy(1) \o StampedBy(2)
       IN  /\ \A i, j \in DOMAIN all : i # j => all[i] # all[j]
           /\ seq = Len(all) % 256

C18_Witness ==
    /\ ~serialised
    /\ thr[1].pc = "idle"
    /\ thr[2].pc = "idle"
    /\ thr[1].stamps = <<0>>
    /\ thr[2].stamps = <<0>>
    /\ thr[1].msg.compid # thr[2].msg.compid
    /\ seq = 1

\* ---------------------------------------------------------------- C19
\* C19: in GOT_MSGID the payload cursor is below the stored length and the
\* stored length is in 1..255, so the payload write of the next call lands
\* at an index in 0..254; in GOT_PAYLOAD and GOT_CRC1 the cursor equals the
\* stored length (0 for an empty payload).
C19_CursorBound ==
    \A ch \in Channels :
        LET st == m_mavlink_status[ch]
            rx == m_mavlink_message[ch]
        IN  /\ (st.parse_state = MAVLINK_PARSE_STATE_GOT_MSGID)
                  => /\ st.packet_idx < rx.len
                     /\ rx.len \in 1..255
                     /\ st.packet_idx \in 0..254
            /\ (st.parse_state \in {MAVLINK_PARSE_STATE_GOT_PAYLOAD,
                                     MAVLINK_PARSE_STATE_GOT_CRC1})
                  => st.packet_idx = rx.len

C19_Witness ==
    \E ch \in Channels :
        /\ m_mavlink_status[ch].parse_state = MAVLINK_PARSE_STATE_GOT_MSGID
        /\ m_mavlink_status[ch].packet_idx = 0
        /\ m_mavlink_message[ch].len = 1
        /\ m_mavlink_status[ch].packet_rx_success_count = 1
        /\ r_message[ch].len = MaxLen

\* ---------------------------------------------------------------- C20
\* C20: after every call, accepted or not, the status copied to the caller
\* carries the channel's received and drop counters as they are and, as
\* current_seq, the channel's current_seq plus one mod 256, which once a
\* message has been accepted is the last accepted sequence number plus one;
\* nothing else (error counter, overrun counter) is copied.
C20_ReportedStatus ==
    \A ch \in Channels :
        (ncalls[ch] > 0)
        => LET st == m_mavlink_status[ch]
               rep == r_mavlink_status[ch]
           IN  /\ rep.packet_rx_success_count = st.packet_rx_success_count
               /\ rep.packet_rx_drop_count = st.packet_rx_drop_count
               /\ rep.current_seq = (st.current_seq + 1) % 256
               /\ (rxlog[ch] # <<>>)
                     => rep.current_seq
                          = (rxlog[ch][Len(rxlog[ch])].msg.seq + 1) % 256
               /\ DOMAIN rep = {"current_seq", "packet_rx_success_count",
                                "packet_rx_drop_count"}

C20_Witness ==
    \E ch \in Channels :
        /\ rxlog[ch] # <<>>
        /\ rxlog[ch][Len(rxlog[ch])].msg.seq = 255
        /\ r_mavlink_status[ch].current_seq = 0
        /\ r_mavlink_status[ch].packet_rx_success_count = 1
        /\ ret[ch] = 0
        /\ m_mavlink_status[ch].parse_state = MAVLINK_PARSE_STATE_GOT_SEQ

====
